---- MODULE Spec2Model ----
(***************************************************************************)
(* Model of the two pipelines of epstein_document_search:                  *)
(*   prepare_for_meilisearch.py  (Document Segmenter and Corpus Builder)   *)
(*   split_json.py               (Size-Bounded Partitioner)                *)
(* The pipelines share no runtime state, so each has its own               *)
(* specification: Spec (builder) and SplitSpec (partitioner).              *)
(***************************************************************************)
EXTENDS Integers, Sequences, FiniteSets, TLC

VARIABLES
    \* ---- prepare_for_meilisearch.py ----
    txt_files,      \* main(): the discovered files, each [path, content, readable]
    file_idx,       \* main(): 1-based position of the next file of the loop
    pages,          \* process_file(): result of the last split_into_pages call
    all_documents,  \* main(): the accumulated PageRecords
    output_file,    \* main(): records dumped to meilisearch_documents.json
    bpc,            \* main(): "scan" | "dump" | "done"
    \* ---- split_json.py ----
    documents,      \* split_json_file(): the loaded JSON array
    max_size,       \* the ceiling max_size_mb * 1024 * 1024, in bytes
    doc_i,          \* 1-based position of the next record of the for loop
    current_chunk,  \* records of the open partition
    current_size,   \* running byte estimate of the open partition
    part_num,       \* number of the next partition file
    written,        \* log of open(output_file, 'w') + json.dump calls
    spc             \* "loop" | "done"

bvars == <<txt_files, file_idx, pages, all_documents, output_file, bpc>>
svars == <<documents, max_size, doc_i, current_chunk, current_size, part_num,
           written, spc>>
vars == <<txt_files, file_idx, pages, all_documents, output_file, bpc,
          documents, max_size, doc_i, current_chunk, current_size, part_num,
          written, spc>>

(***************************************************************************)
(* Generic helpers                                                         *)
(***************************************************************************)
RECURSIVE SumSeq(_)
SumSeq(s) == IF s = <<>> THEN 0 ELSE Head(s) + SumSeq(Tail(s))

RECURSIVE Flatten(_)
Flatten(ss) == IF ss = <<>> THEN <<>> ELSE Head(ss) \o Flatten(Tail(ss))

(***************************************************************************)
(* split_json.py                                                           *)
(***************************************************************************)
\* Bound: longest input array.
MaxDocs == 4

\* A record of the input array is a PageRecord: a flat JSON object of
\* NumFields `"key": value` items.  `id` tells records apart; `items` is the
\* total UTF-8 byte length of its `"key": value` items.
NumFields == 8
ItemBytes == {139, 142, 339}
MaxSizes == {100, 320, 480, 700, 1200}

\* json.dumps(doc, ensure_ascii=False): "{" items joined by ", " "}"
DocJsonLen(doc) == 1 + doc.items + 2 * (NumFields - 1) + 1

\* +3 for comma, newline, indent
SepEstimate == 3
doc_size(doc) == DocJsonLen(doc) + SepEstimate

\* json.dump(chunk, f, indent=2, ensure_ascii=False): the bytes on disk.
Indent == 2
\* one element of the array: "  {" NL, each item on its own line indented
\* twice (with "," but for the last), "  }"
PrettyDocLen(doc) ==
    (Indent + 1) + 1
    + NumFields * (2 * Indent) + doc.items + (NumFields - 1) + NumFields
    + (Indent + 1)
\* "[" NL, the elements joined by "," NL, NL "]"; an empty list is "[]"
FileSize(chunk) ==
    IF chunk = <<>> THEN 2
    ELSE 2 + SumSeq([k \in 1..Len(chunk) |-> PrettyDocLen(chunk[k])])
           + 2 * (Len(chunk) - 1) + 2

\* current_size = 2  # Start with 2 bytes for the [] brackets
InitialSize == 2

\* if current_chunk and estimated_mb > max_size_mb
\* (both sides of the comparison scaled by 1024 * 1024)
FlushIgnoringDoc(chunk, size, dsize, ceiling) ==
    chunk # <<>> /\ size > ceiling
ShouldFlush(chunk, size, dsize, ceiling) ==
    chunk # <<>> /\ size + dsize > ceiling

\* Start new chunk
ChunkNotReset == current_chunk
ChunkAfterFlush == <<>>
SizeNotReset == current_size
SizeAfterFlush == 2
PartNumNotIncremented(p) == p
NextPartNum(p) == p + 1

\* with open(output_file, 'w') ...: json.dump(current_chunk, f, ...)
WriteChunk(log, p, chunk) == Append(log, [part |-> p, docs |-> chunk])

\* The filesystem after the writes of the log: the numbers of the files that
\* exist, and the content of file n (what the last write to it left).
Parts == {written[k].part : k \in 1..Len(written)}
FileContent(n) ==
    LET ks == {k \in 1..Len(written) : written[k].part = n}
        last == CHOOSE k \in ks : \A j \in ks : j <= k
    IN  written[last].docs

DocSeqs ==
    UNION {[1..n -> ItemBytes] : n \in 0..MaxDocs}
MkDocs(f) == [k \in 1..Len(f) |-> [id |-> k, items |-> f[k]]]

\* One iteration of `for doc in documents` (lines 28-53).
SplitIterate ==
    /\ spc = "loop"
    /\ doc_i <= Len(documents)
    /\ LET doc == documents[doc_i]
           dsize == doc_size(doc)
           flush == ShouldFlush(current_chunk, current_size, dsize, max_size)
       IN  /\ written' = IF flush
                         THEN WriteChunk(written, part_num, current_chunk)
                         ELSE written
           /\ current_chunk' = Append(IF flush THEN ChunkAfterFlush
                                               ELSE current_chunk, doc)
           /\ current_size' = (IF flush THEN SizeAfterFlush
                                        ELSE current_size) + dsize
           /\ part_num' = IF flush THEN NextPartNum(part_num) ELSE part_num
    /\ doc_i' = doc_i + 1
    /\ UNCHANGED <<documents, max_size, spc>>
    /\ UNCHANGED bvars

\* Write final chunk (lines 55-64).
SplitFinish ==
    /\ spc = "loop"
    /\ doc_i > Len(documents)
    /\ written' = IF current_chunk # <<>>
                  THEN WriteChunk(written, part_num, current_chunk)
                  ELSE written
    /\ spc' = "done"
    /\ UNCHANGED <<documents, max_size, doc_i, current_chunk, current_size,
                   part_num>>
    /\ UNCHANGED bvars

BuilderIdle ==
    /\ txt_files = <<>>
    /\ file_idx = 1
    /\ pages = <<>>
    /\ all_documents = <<>>
    /\ output_file = <<>>
    /\ bpc = "done"

SplitInit ==
    /\ \E f \in DocSeqs : documents = MkDocs(f)
    /\ max_size \in MaxSizes
    /\ doc_i = 1
    /\ current_chunk = <<>>
    /\ current_size = InitialSize
    /\ part_num = 1
    /\ written = <<>>
    /\ spc = "loop"
    /\ BuilderIdle

SplitNext == SplitIterate \/ SplitFinish

SplitSpec == SplitInit /\ [][SplitNext]_vars

(***************************************************************************)
(* Claims about split_json.py, checked under SplitSpec                     *)
(***************************************************************************)
RECURSIVE ConcatFiles(_)
ConcatFiles(ps) ==
    IF ps = {} THEN <<>>
    ELSE LET m == CHOOSE x \in ps : \A y \in ps : x <= y
         IN  FileContent(m) \o ConcatFiles(ps \ {m})

\* The running estimate the loop keeps for a group of records.
EstimateOf(chunk) ==
    InitialSize + SumSeq([k \in 1..Len(chunk) |-> doc_size(chunk[k])])

\* C1: once split_json_file has finished, the partition files concatenated in
\* partition-number order are exactly the input array: same records, same
\* order, none dropped, duplicated or split.
C1_RoundTrip ==
    spc = "done" => ConcatFiles(Parts) = documents

C1_Witness ==
    /\ spc = "done"
    /\ Cardinality(Parts) >= 2
    /\ \E n \in Parts : Len(FileContent(n)) >= 2

\* C2: every partition file holding two or more records has an on-disk size
\* (the indent=2 JSON array) at or under the ceiling.
C2_RealSizeBound ==
    \A k \in 1..Len(written) :
        Len(written[k].docs) >= 2 => FileSize(written[k].docs) <= max_size

\* The contiguous groups of 1..n cut after the positions of cuts.
GroupsOf(cuts, n) ==
    {<<a, e>> \in (1..n) \X (1..n) :
        /\ a <= e
        /\ a = 1 \/ (a - 1) \in cuts
        /\ e = n \/ e \in cuts
        /\ \A c \in cuts : ~(a <= c /\ c < e)}

GroupDocs(g) == SubSeq(documents, g[1], g[2])

\* A group is admissible when it is one record or its size is under the ceiling.
AdmissibleEst(g) == g[1] = g[2] \/ EstimateOf(GroupDocs(g)) <= max_size
AdmissibleReal(g) == g[1] = g[2] \/ FileSize(GroupDocs(g)) <= max_size

\* C3: the files written are the fewest possible: no cut of the input into
\* fewer contiguous non-empty groups keeps every group (single records aside)
\* at or under the ceiling, whether a group is measured by the running
\* estimate or by its size on disk; and every non-final partition is maximal:
\* with the first record of the next partition it is over the ceiling.
C3_Minimal ==
    spc = "done" =>
        LET n == Len(documents)
        IN  /\ \A cuts \in SUBSET (1..(n - 1)) :
                 LET gs == GroupsOf(cuts, n)
                 IN  /\ (\A g \in gs : AdmissibleEst(g))
                            => Cardinality(gs) >= Len(written)
                     /\ (\A g \in gs : AdmissibleReal(g))
                            => Cardinality(gs) >= Len(written)
            /\ \A k \in 1..(Len(written) - 1) :
                 LET more == Append(written[k].docs, written[k + 1].docs[1])
                 IN  /\ EstimateOf(more) > max_size
                     /\ FileSize(more) > max_size

C3_Witness ==
    /\ spc = "done"
    /\ Len(written) >= 2
    /\ \E k \in 1..Len(written) : Len(written[k].docs) >= 2
    /\ \E cuts \in SUBSET (1..(Len(documents) - 1)) :
          /\ Cardinality(cuts) + 1 = Len(written)
          /\ \A g \in GroupsOf(cuts, Len(documents)) : AdmissibleEst(g)

Oversized(doc) == InitialSize + doc_size(doc) > max_size

\* C4: a record whose own estimated cost exceeds the ceiling is never dropped
\* or split: wherever it stands in the input, some partition file holds that
\* record and nothing else.
C4_OversizedAlone ==
    spc = "done" =>
        \A i \in 1..Len(documents) :
            Oversized(documents[i]) =>
                /\ \E n \in Parts : FileContent(n) = <<documents[i]>>
                /\ \A n \in Parts :
                      (\E k \in 1..Len(FileContent(n)) :
                            FileContent(n)[k] = documents[i])
                        => FileContent(n) = <<documents[i]>>

C4_Witness ==
    /\ spc = "done"
    /\ \E i \in 2..(Len(documents) - 1) :
          /\ Oversized(documents[i])
          /\ ~Oversized(documents[i - 1])
          /\ Oversized(documents[i + 1])
    /\ \E n \in Parts : Len(FileContent(n)) >= 2

\* C5: the files written are numbered 1, 2, ..., N in the order written, each
\* written once and never again, none holds an empty array, an empty input
\* writes nothing, and at the end the last non-empty partition is on disk.
C5_Numbering ==
    /\ \A k \in 1..Len(written) :
          /\ written[k].part = k
          /\ written[k].docs # <<>>
    /\ spc = "done" =>
          /\ documents = <<>> => written = <<>>
          /\ current_chunk # <<>> =>
                /\ written # <<>>
                /\ written[Len(written)].docs = current_chunk

C5_Witness ==
    /\ spc = "done"
    /\ Len(written) >= 3
    /\ current_chunk # <<>>

(***************************************************************************)
(* prepare_for_meilisearch.py: text and regular expressions                *)
(*                                                                         *)
(* A text is a sequence of tokens [k, n, v]: k the kind, n the number of   *)
(* characters, v the value of a digit.  The five words the patterns spell  *)
(* out are tokens of their own; "d" is one digit; ":", "-", "/" are those  *)
(* characters; "s" is one whitespace character; "w" is a run of n letters  *)
(* that spell none of the five words; "o" is a run of n characters that    *)
(* are neither word characters nor whitespace (such as ".").  Offsets are  *)
(* token positions, except for the 500-character slice, which counts       *)
(* characters.                                                             *)
(***************************************************************************)
Tok(kind, len, val) == [k |-> kind, n |-> len, v |-> val]
KwCase == Tok("Case", 4, 0)
KwDocument == Tok("Document", 8, 0)
KwFiled == Tok("Filed", 5, 0)
KwPage == Tok("Page", 4, 0)
KwOf == Tok("of", 2, 0)
Digit(d) == Tok("d", 1, d)
Colon == Tok(":", 1, 0)
Hyphen == Tok("-", 1, 0)
Slash == Tok("/", 1, 0)
Space == Tok("s", 1, 0)
Word(len) == Tok("w", len, 0)
Other(len) == Tok("o", len, 0)

Keywords == {"Case", "Document", "Filed", "Page", "of"}

\* The character classes of the patterns: \s, \d, [\d:], [-\w], [\d-], [\d/]
InClass(cls, t) ==
    CASE cls = "s"  -> t.k = "s"
      [] cls = "d"  -> t.k = "d"
      [] cls = "d:" -> t.k \in {"d", ":"}
      [] cls = "-w" -> t.k \in {"-", "d", "w"} \cup Keywords
      [] cls = "d-" -> t.k \in {"d", "-"}
      [] cls = "d/" -> t.k \in {"d", "/"}

\* A pattern is a sequence of elements: a literal word or a class under +.
Lit(word) == [t |-> "lit", x |-> word]
Plus(cls) == [t |-> "plus", x |-> cls]

\* r'Case\s+[\d:]+[-\w]+'
CasePattern == <<Lit("Case"), Plus("s"), Plus("d:"), Plus("-w")>>
\* r'Page\s+(\d+)\s+of\s+(\d+)'
PageInfoPattern ==
    <<Lit("Page"), Plus("s"), Plus("d"), Plus("s"), Lit("of"), Plus("s"),
      Plus("d")>>
\* r'Case\s+[\d:]+[-\w]+\s+Document\s+[\d-]+\s+Filed\s+[\d/]+\s+Page\s+\d+\s+of\s+\d+'
PagePattern ==
    CasePattern
    \o <<Plus("s"), Lit("Document"), Plus("s"), Plus("d-"), Plus("s"),
         Lit("Filed"), Plus("s"), Plus("d/"), Plus("s")>>
    \o PageInfoPattern

\* Length of the longest run of tokens of class cls that starts at p.
RECURSIVE RunLen(_, _, _)
RunLen(text, p, cls) ==
    IF p <= Len(text) /\ InClass(cls, text[p])
    THEN 1 + RunLen(text, p + 1, cls)
    ELSE 0

\* The element of a one-element set.  Only({F(x) : x \in {e}}) is F(e) with e
\* evaluated once, however often F uses it.
Only(S) == CHOOSE out \in S : TRUE

\* Where one element can end when it starts at position q: a literal after
\* its word, a + after any non-empty part of the run of its class.
ElementEnds(text, q, e) ==
    IF e.t = "lit"
    THEN IF q <= Len(text) /\ text[q].k = e.x THEN {q + 1} ELSE {}
    ELSE {q + n : n \in 1..RunLen(text, q, e.x)}

\* A way of matching is the sequence of its positions: the start, then the
\* position after each element.  ways continued by the elements pat[a..b].
RECURSIVE Continue(_, _, _, _, _)
Continue(text, ways, pat, a, b) ==
    IF ways = {} THEN {}
    ELSE IF a = b
    THEN UNION {{Append(w, q) : q \in ElementEnds(text, w[Len(w)], pat[a])} :
                   w \in ways}
    ELSE Only({Continue(text, half, pat, (a + b) \div 2 + 1, b) :
                  half \in {Continue(text, ways, pat, a, (a + b) \div 2)}})

\* w is tried before v: at the first element where they part, w takes more.
TriedFirst(w, v) ==
    \A i \in 1..Len(w) : (\A j \in 1..(i - 1) : w[j] = v[j]) => w[i] >= v[i]

\* The match of pat at position p: of all the ways pat matches there, the
\* one the backtracking matcher finds first (every + as long as the rest of
\* the pattern allows).  <<>> for no match.
Match(text, p, pat) ==
    Only({IF ways = {} THEN <<>>
          ELSE CHOOSE w \in ways : \A v \in ways : TriedFirst(w, v) :
             ways \in {Continue(text, {<<p>>}, pat, 1, Len(pat))}})

\* The positions at or after from where pat[1] matches: a match of pat starts
\* at one of them.
Candidates(pat, text, from) ==
    {p \in from..Len(text) : ElementEnds(text, p, pat[1]) # {}}

\* re.search: the leftmost match at or after from; <<>> when there is none.
Search(pat, text, from) ==
    Only({IF found = {} THEN <<>>
          ELSE CHOOSE m \in found : \A other \in found : m[1] <= other[1] :
             found \in {{Match(text, p, pat) :
                           p \in Candidates(pat, text, from)} \ {<<>>}}})

MatchStart(m) == m[1]
\* position after the last token of the match
MatchEnd(m) == m[Len(m)]

\* list(re.finditer(pat, text)): leftmost non-overlapping matches.
RECURSIVE FindIterFrom(_, _, _)
FindIterFrom(pat, text, from) ==
    Only({IF m = <<>> THEN <<>>
          ELSE <<m>> \o FindIterFrom(pat, text, MatchEnd(m)) :
             m \in {Search(pat, text, from)}})

\* int(s) of the digits text[a..b]
RECURSIVE IntOf(_, _, _)
IntOf(text, a, b) ==
    IF b < a THEN 0 ELSE 10 * IntOf(text, a, b - 1) + text[b].v

\* Number of whitespace tokens that end s[1..i].
RECURSIVE TrailingSpaces(_, _)
TrailingSpaces(s, i) ==
    IF i >= 1 /\ InClass("s", s[i]) THEN 1 + TrailingSpaces(s, i - 1) ELSE 0

\* s.strip()
Strip(s) ==
    SubSeq(s, 1 + RunLen(s, 1, "s"), Len(s) - TrailingSpaces(s, Len(s)))

\* Number of characters of the tokens s[a..b].
RECURSIVE CharLen(_, _, _)
CharLen(s, a, b) ==
    IF a > b THEN 0
    ELSE IF a = b THEN s[a].n
    ELSE CharLen(s, a, (a + b) \div 2) + CharLen(s, (a + b) \div 2 + 1, b)

\* The largest j in lo..hi such that the tokens s[1..j] hold at most count
\* characters (s[1..lo] does).
RECURSIVE WholeTokens(_, _, _, _)
WholeTokens(s, count, lo, hi) ==
    IF lo >= hi THEN lo
    ELSE IF CharLen(s, 1, (lo + hi + 1) \div 2) <= count
         THEN WholeTokens(s, count, (lo + hi + 1) \div 2, hi)
         ELSE WholeTokens(s, count, lo, (lo + hi + 1) \div 2 - 1)

\* s[:count], count in characters.  A token cut in two leaves its first
\* characters: letters that no longer spell the word, or other characters.
TakeChars(s, count) ==
    Only({IF k = Len(s) \/ CharLen(s, 1, k) = count
          THEN SubSeq(s, 1, k)
          ELSE Append(SubSeq(s, 1, k),
                      Tok(IF s[k + 1].k = "o" THEN "o" ELSE "w",
                          count - CharLen(s, 1, k), 0)) :
             k \in {WholeTokens(s, count, 0, Len(s))}})

\* Python's None, for an integer and for a string
None == -1
NoneStr == <<>>

\* extract_case_number(text)
extract_case_number(text) ==
    LET m == Search(CasePattern, text, 1)
    IN  IF m = <<>> THEN NoneStr
        ELSE SubSeq(text, MatchStart(m), MatchEnd(m) - 1)

\* extract_page_info(text): <<int(group(1)), int(group(2))>>
extract_page_info(text) ==
    LET m == Search(PageInfoPattern, text, 1)
    IN  IF m = <<>> THEN <<None, None>>
        ELSE <<IntOf(text, m[3], m[4] - 1), IntOf(text, m[7], m[8] - 1)>>

\* start_pos = marker.start()
StartAfterMarker(marker) == MatchEnd(marker)
StartPos(marker) == MatchStart(marker)

\* end_pos = markers[i + 1].start() if i + 1 < len(markers) else len(content)
\* (i is 1-based here; the slice content[start_pos:end_pos] ends before it)
EndPos(markers, i, content) ==
    IF i + 1 <= Len(markers) THEN MatchStart(markers[i + 1])
    ELSE Len(content) + 1

\* split_into_pages(content): the list of [content, num, total]
split_into_pages(content) ==
    LET markers == FindIterFrom(PagePattern, content, 1)
    IN  IF markers = <<>>
        THEN LET info == extract_page_info(content)
             IN  <<[content |-> content, num |-> info[1], total |-> info[2]]>>
        ELSE [i \in 1..Len(markers) |->
                LET page_content ==
                        Strip(SubSeq(content, StartPos(markers[i]),
                                     EndPos(markers, i, content) - 1))
                    info == extract_page_info(page_content)
                IN  [content |-> page_content, num |-> info[1],
                     total |-> info[2]]]

(***************************************************************************)
(* prepare_for_meilisearch.py: process_file and main                       *)
(***************************************************************************)
\* A path relative to base_path: the directories, then <stem>.txt
RootSentinel == "root"
\* relative_path.parts[0] if len(relative_path.parts) > 1 else "root"
FolderOf(path) == IF Len(path.dirs) + 1 > 1 THEN path.dirs[1] ELSE RootSentinel
\* Path(filepath).stem
StemOf(path) == path.stem

\* content[:500]
PrefixLen == 500
WholeContent(content) == content
CasePrefix(content) == TakeChars(content, PrefixLen)

\* page_num if page_num else idx + 1      (idx counts from 0)
PageNumberUnlessNone(page_num, idx) ==
    IF page_num # None THEN page_num ELSE idx + 1
PageNumberOf(page_num, idx) ==
    IF page_num # None /\ page_num # 0 THEN page_num ELSE idx + 1

\* f"{document_id}_page_{...}": the number is written in decimal digits, so
\* the text after the last "_page_" gives the number back and the text before
\* it the stem; the id is kept as that pair.
ChunkId(document_id, n) == [stem |-> document_id, page |-> n]

\* process_file(filepath, base_path) once the file has been read
RecordsOf(path, content, split) ==
    LET document_id == StemOf(path)
        case_number == Only({extract_case_number(prefix) :
                                prefix \in {CasePrefix(content)}})
    IN  [k \in 1..Len(split) |->
            [id |-> ChunkId(document_id,
                            PageNumberOf(split[k].num, k - 1)),
             content |-> split[k].content,
             document_id |-> document_id,
             folder |-> FolderOf(path),
             page_number |-> PageNumberOf(split[k].num, k - 1),
             total_pages |-> split[k].total,
             case_number |-> case_number,
             source_file |-> path]]

\* One iteration of `for idx, filepath in enumerate(txt_files, 1)`:
\* process_file, which returns [] when the file cannot be read, and extend.
\* pages is process_file's local; <<>> stands for a call that never bound it.
ProcessFile ==
    /\ bpc = "scan"
    /\ file_idx <= Len(txt_files)
    /\ \E readable \in BOOLEAN :
          LET file == txt_files[file_idx]
              split == split_into_pages(file.content)
          IN  IF readable
              THEN /\ pages' = split
                   /\ all_documents' =
                         all_documents \o RecordsOf(file.path, file.content, split)
              ELSE /\ pages' = <<>>
                   /\ UNCHANGED all_documents
    /\ file_idx' = file_idx + 1
    /\ UNCHANGED <<txt_files, output_file, bpc>>
    /\ UNCHANGED svars

\* json.dump(all_documents, f, indent=2, ensure_ascii=False)
DumpOutput ==
    /\ bpc = "scan"
    /\ file_idx > Len(txt_files)
    /\ output_file' = all_documents
    /\ bpc' = "done"
    /\ UNCHANGED <<txt_files, file_idx, pages, all_documents>>
    /\ UNCHANGED svars

(***************************************************************************)
(* The corpora the builder is run on                                       *)
(***************************************************************************)
\* Bounds: pieces of text in the whole corpus; length of the long filler.
MaxSegs == 3
PadLen == 492

PageNums == {0, 1}
\* "Case 1:<n>-x Document 1-1 Filed 1/1 Page <n> of 2"
Marker(n) ==
    <<KwCase, Space, Digit(1), Colon, Digit(n), Hyphen, Word(1), Space,
      KwDocument, Space, Digit(1), Hyphen, Digit(1), Space,
      KwFiled, Space, Digit(1), Slash, Digit(1), Space,
      KwPage, Space, Digit(n), Space, KwOf, Space, Digit(2)>>
\* "Page 2 of 5"
PageLine == <<KwPage, Space, Digit(2), Space, KwOf, Space, Digit(5)>>
Segments ==
    {Marker(n) : n \in PageNums}
    \cup {PageLine, <<Space>>, <<Word(1)>>, <<Other(PadLen)>>}

PathLists ==
    {<<[dirs |-> <<>>, stem |-> "a"]>>,
     <<[dirs |-> <<>>, stem |-> "a"], [dirs |-> <<"f1">>, stem |-> "a"]>>}

SplitIdle ==
    /\ documents = <<>>
    /\ max_size = 0
    /\ doc_i = 1
    /\ current_chunk = <<>>
    /\ current_size = InitialSize
    /\ part_num = 1
    /\ written = <<>>
    /\ spc = "done"

Init ==
    /\ \E paths \in PathLists :
       \E n \in 0..MaxSegs :
       \E segs \in [1..n -> Segments] :
       \E cut \in 0..n :
          /\ Len(paths) = 1 => cut = n
          /\ txt_files =
                [i \in 1..Len(paths) |->
                    [path |-> paths[i],
                     content |-> IF i = 1
                                 THEN Flatten(SubSeq(segs, 1, cut))
                                 ELSE Flatten(SubSeq(segs, cut + 1, n))]]
    /\ file_idx = 1
    /\ pages = <<>>
    /\ all_documents = <<>>
    /\ output_file = <<>>
    /\ bpc = "scan"
    /\ SplitIdle

Next == ProcessFile \/ DumpOutput

Spec == Init /\ [][Next]_vars

(***************************************************************************)
(* Claims about prepare_for_meilisearch.py, checked under Spec             *)
(***************************************************************************)
\* Where pat matches in text, by position, whatever a scan would skip.
StartsOf(pat, text) ==
    {p \in Candidates(pat, text, 1) : Match(text, p, pat) # <<>>}
MinOf(S) == CHOOSE x \in S : \A y \in S : x <= y

\* The i-th smallest element of S.
Nth(S, i) == CHOOSE x \in S : Cardinality({y \in S : y <= x}) = i

\* The numbers of the "Page X of Y" that starts at p.
InfoAt(text, p) ==
    LET m == Match(text, p, PageInfoPattern)
    IN  <<IntOf(text, m[3], m[4] - 1), IntOf(text, m[7], m[8] - 1)>>

\* The numbers of the first "Page X of Y" of text, if any.
FirstInfo(text) ==
    LET ps == StartsOf(PageInfoPattern, text)
    IN  IF ps = {} THEN <<None, None>> ELSE InfoAt(text, MinOf(ps))

\* The numbers of the "Page X of Y" that ends the marker starting at p.
MarkerInfo(text, p) ==
    LET m == Match(text, p, PagePattern)
    IN  InfoAt(text, m[14])

FileOf(record) ==
    txt_files[CHOOSE i \in 1..Len(txt_files) :
                  txt_files[i].path = record.source_file]

\* 1-based position of record i among the records of its own document.
PosInDoc(i) ==
    Cardinality({j \in 1..i :
        all_documents[j].source_file = all_documents[i].source_file})

\* C6: two distinct records share an id only if they come from different
\* source files with the same stem and the same page number; the records of
\* one document have pairwise distinct ids.
C6_UniqueIds ==
    \A i, j \in 1..Len(all_documents) :
        (i # j /\ all_documents[i].id = all_documents[j].id) =>
            /\ all_documents[i].source_file # all_documents[j].source_file
            /\ StemOf(all_documents[i].source_file)
                 = StemOf(all_documents[j].source_file)
            /\ all_documents[i].page_number = all_documents[j].page_number

\* C7: every emitted record's content is trimmed of leading and trailing
\* whitespace and is never empty, with or without markers in the document.
C7_ContentTrimmedNonEmpty ==
    \A i \in 1..Len(all_documents) :
        /\ all_documents[i].content = Strip(all_documents[i].content)
        /\ all_documents[i].content # <<>>

\* C8: every emitted record has a page_number that is not null and is >= 1;
\* when its span holds no "Page X of Y", or its first one says page 0, the
\* number is the page's 1-based position in its document, and otherwise it is
\* the number that "Page X of Y" gives.
C8_PageNumber ==
    \A i \in 1..Len(all_documents) :
        \A r \in {all_documents[i]} : \A info \in {FirstInfo(r.content)} :
            /\ r.page_number # None
            /\ r.page_number >= 1
            /\ (info[1] = None \/ info[1] = 0) => r.page_number = PosInDoc(i)
            /\ (info[1] # None /\ info[1] # 0) => r.page_number = info[1]

C8_Witness ==
    \E i \in 1..Len(all_documents) :
        /\ FirstInfo(all_documents[i].content)[1] = 0
        /\ PosInDoc(i) >= 2
        /\ all_documents[i].page_number = PosInDoc(i)

\* C9: with k >= 1 markers at m1 < ... < mk, split_into_pages returns k pages
\* in marker order, page i the trimmed text from mi up to m(i+1) (the last to
\* the end of the text), so that a marker begins its own page and the text
\* before m1 is in no page, each page with the numbers of its own marker,
\* which are those of the first "Page X of Y" of its span; with no marker it
\* returns one page holding the whole text, with the numbers of the first
\* "Page X of Y" of the text, or null.
C9_Pages ==
    (file_idx > 1 /\ pages # <<>>) =>
        \A text \in {txt_files[file_idx - 1].content} :
        \A ms \in {StartsOf(PagePattern, text)} :
        \A k \in {Cardinality(ms)} :
            IF k = 0
            THEN \A info \in {FirstInfo(text)} :
                    pages = <<[content |-> text,
                               num |-> info[1], total |-> info[2]]>>
            ELSE /\ Len(pages) = k
                 /\ \A i \in 1..k :
                     \A first \in {Nth(ms, i)} :
                     \A last \in {IF i < k THEN Nth(ms, i + 1) - 1
                                   ELSE Len(text)} :
                           /\ pages[i].content
                                = Strip(SubSeq(text, first, last))
                           /\ pages[i].content[1] = text[first]
                           /\ <<pages[i].num, pages[i].total>>
                                = MarkerInfo(text, first)
                           /\ <<pages[i].num, pages[i].total>>
                                = FirstInfo(pages[i].content)
                 /\ SumSeq([i \in 1..k |-> Len(pages[i].content)])
                        <= Len(text) - (MinOf(ms) - 1)

C9_Witness ==
    /\ file_idx > 1
    /\ Len(pages) >= 2
    /\ MinOf(StartsOf(PagePattern, txt_files[file_idx - 1].content)) > 1
    /\ pages[1].num # pages[2].num

\* The first case-number token of text, or null.
FirstCaseToken(text) ==
    LET ps == StartsOf(CasePattern, text)
    IN  IF ps = {} THEN NoneStr
        ELSE SubSeq(text, MinOf(ps),
                    MatchEnd(Match(text, MinOf(ps), CasePattern)) - 1)

\* C10: every record of a document carries the same case_number, the first
\* case-number token of the first 500 characters of the document, and null
\* when those hold none, even if one stands later in the text.
C10_CaseNumber ==
    \A i \in 1..Len(all_documents) :
        /\ \A prefix \in {TakeChars(FileOf(all_documents[i]).content,
                                     PrefixLen)} :
              all_documents[i].case_number = FirstCaseToken(prefix)
        /\ \A j \in 1..Len(all_documents) :
              all_documents[j].source_file = all_documents[i].source_file
                => all_documents[j].case_number = all_documents[i].case_number

C10_Witness ==
    \E i \in 1..Len(all_documents) :
        /\ all_documents[i].case_number = NoneStr
        /\ StartsOf(CasePattern, all_documents[i].content) # {}
        /\ Len(FileOf(all_documents[i]).content) > Len(all_documents[i].content)

====
